---- MODULE Spec2Model ----
(***************************************************************************)
(* SessionViewer backend: the index coordinator (services/indexer.py), the *)
(* refresh endpoint (routers/index.py), the two JSONL parsers and the      *)
(* store tables of models.py, as a state machine.                          *)
(***************************************************************************)
EXTENDS Integers, Sequences, FiniteSets, TLC

\* ------------------------------------------------------------------ bounds
MaxRefresh == 2     \* refresh requests served after startup
MaxWrites == 1      \* writes of the assistant tools to transcript files
MaxLines == 3       \* lines of a transcript in the parser specification
MaxLoads == 3       \* requests for the messages of a subagent

\* ------------------------------------------------------------- file system
\* Transcript paths, in the order the scanners yield them:
\*   cA = <claude>/projects/p1/s1.jsonl     cB = <claude>/projects/p1/s2.jsonl
\*   cC = <claude>/projects/p2/s1.jsonl     xA = <codex>/sessions/2025/01/02/s3.jsonl
ClaudeOrder == <<"cA", "cB", "cC">>
CodexOrder == <<"xA">>
ClaudePaths == {ClaudeOrder[i] : i \in 1..Len(ClaudeOrder)}
CodexPaths == {CodexOrder[i] : i \in 1..Len(CodexOrder)}
Paths == ClaudePaths \cup CodexPaths

\* Subagent transcripts:
\*   sA1 = <claude>/projects/p1/s1/subagents/a1.jsonl
\*   sA2 = <claude>/projects/p1/s1/subagents/a2.jsonl
SubagentFile == "sA1"
SubagentFile2 == "sA2"
\* the project directory and the session directory a subagent transcript is under
SubagentProject(f) == "p1"
SubagentSession(f) == "s1"

\* Path.stem and Path.parent of a transcript path
Stem(p) == CASE p = "cA" -> "s1" [] p = "cB" -> "s2" [] p = "cC" -> "s1"
             [] p = "sA1" -> "a1" [] p = "sA2" -> "a2" [] OTHER -> "s3"
ProjectDir(p) == CASE p = "cA" -> "p1" [] p = "cB" -> "p1" [] p = "cC" -> "p2" [] OTHER -> "none"

\* The text of a message, as far as the display rule looks at it: how it
\* begins and how many characters follow that are not part of a tag.
\*   pre = "sys"     a tag of the system prefixes, "<system-reminder>" ...
\*   pre = "tag"     another tag, "<b>" ...
\*   pre = "agents"  the prefix "# AGENTS.md instructions"
\*   pre = "plan"    the preamble "Implement the following plan:"
\*   pre = "none"    none of these
Txt(pre, n) == [pre |-> pre, n |-> n]
NoText == Txt("none", 0)

\* A line of a transcript: its kind, and for a JSON object its timestamp
\* (0: the record carries none), the cwd key ("none": absent), the text of
\* the message, the shape of message["content"] (a string or a list of
\* blocks), the model of an assistant message, the id of a session_meta
\* payload ("none": the payload has no id).
L(k) == [kind |-> k, ts |-> 0, cwd |-> "none",
         text |-> IF k \in {"user", "msg_user"} THEN Txt("none", 3) ELSE NoText,
         shape |-> IF k = "user" THEN "str" ELSE "list",
         model |-> IF k = "assistant" THEN "mdl" ELSE "none",
         id |-> IF k = "session_meta" THEN "m1" ELSE "none"]
\* Lines of a Format A file: a blank line, a line that is not JSON, a JSON
\* value that is not an object, a line the file object fails to deliver
\* (I/O or decoding error), and objects of type user / assistant / other.
ClaudeKinds == {"blank", "bad", "nondict", "ioerr", "user", "assistant", "other"}
\* Lines of a Format B file: as above, and objects of type session_meta,
\* response_item (message with role user / assistant / another role,
\* function_call, function_call_output, another payload type), other.
CodexKinds == {"blank", "bad", "nondict", "ioerr", "session_meta", "msg_user",
               "msg_assistant", "msg_role", "function_call",
               "function_call_output", "item_other", "other"}

NoFile == [present |-> FALSE, lines |-> <<>>]
File(ls) == [present |-> TRUE, lines |-> ls]


\* ------------------------------------------------------------------ parsers
\* read_jsonl: blank lines and lines that fail json.loads are skipped
Yields(line) == line.kind \notin {"blank", "bad"}
\* read_jsonl: any other failure while reading is logged and raised again
ReadRaises(line) == line.kind = "ioerr"

\* cleaned[:200]
DisplayMax == 200
\* len("Implement the following plan:")
PlanLen == 29

\* strip_xml_tags: the tags are taken out, the rest is stripped of blanks
strip_xml_tags(text) ==
    Txt(IF text.pre \in {"agents", "plan"} THEN text.pre ELSE "none", text.n)
\* is_system_message: the stripped text starts with one of _SYSTEM_PREFIXES
is_system_message(text) == text.pre \in {"sys", "agents"}
\* the number of characters of a text without tags
TextLen(c) == (IF c.pre = "plan" THEN PlanLen ELSE 0) + c.n
\* a string that Python takes as false: the empty one
IsEmpty(c) == c.pre = "none" /\ c.n = 0
\* cleaned.startswith("Implement the following plan:")
StartsWithPlan(c) == c.pre = "plan"
\* cleaned[:200]
Truncate(c) ==
    IF TextLen(c) <= DisplayMax THEN c
    ELSE Txt(c.pre, DisplayMax - (IF c.pre = "plan" THEN PlanLen ELSE 0))

\* an element of the parser's messages: type, sequence, and the shape of the
\* "content" of the JSON object kept in its content
Msg(type, sequence, shape) == [type |-> type, sequence |-> sequence, shape |-> shape]
\* the locals of a parser before its loop; first is first_user_message
\* (NoText: None), id "none" is None, the timestamps 0 are None
ParseStart == [messages |-> <<>>, sequence |-> 0, raised |-> FALSE, id |-> "none",
               created_at |-> 0, updated_at |-> 0, cwd |-> "none", model |-> "none",
               first |-> NoText]

\* parse_claude_session: "Update session metadata", for an entry of any type
ClaudeMeta(acc, line) ==
    [acc EXCEPT !.created_at = IF @ = 0 /\ line.ts # 0 THEN line.ts ELSE @,
                !.updated_at = IF line.ts # 0 THEN line.ts ELSE @,
                !.cwd = IF line.cwd # "none" /\ @ = "none" THEN line.cwd ELSE @]


\* parse_claude_session: "Extract first user message for display"
ClaudeFirst(first, text) ==
    LET cleaned == strip_xml_tags(text) IN
    IF IsEmpty(first) /\ ~IsEmpty(cleaned) /\ ~StartsWithPlan(cleaned)
       /\ ~is_system_message(text)
    THEN Truncate(cleaned)
    ELSE first

\* a faulty variant: the counter runs on for a record that gives no message
ClaudeEntryCountsAll(acc, line) ==
    IF acc.raised \/ ~Yields(line) THEN acc
    ELSE IF ReadRaises(line) \/ line.kind = "nondict"
         THEN [acc EXCEPT !.raised = TRUE]
    ELSE LET a == ClaudeMeta(acc, line) IN
         IF line.kind = "user"
         THEN [a EXCEPT !.first = ClaudeFirst(@, line.text),
                        !.messages = Append(@, Msg("user", a.sequence, line.shape)),
                        !.sequence = @ + 1]
         ELSE IF line.kind = "assistant"
         THEN [a EXCEPT !.model = IF @ = "none" THEN line.model ELSE @,
                        !.messages = Append(@, Msg("assistant", a.sequence, line.shape)),
                        !.sequence = @ + 1]
         ELSE [a EXCEPT !.sequence = @ + 1]

\* parse_claude_session, the loop body for one line of the file
ClaudeEntry(acc, line) ==
    IF acc.raised \/ ~Yields(line) THEN acc
    ELSE IF ReadRaises(line) \/ line.kind = "nondict"
         THEN [acc EXCEPT !.raised = TRUE]
    ELSE LET a == ClaudeMeta(acc, line) IN
         IF line.kind = "user"
         THEN [a EXCEPT !.first = ClaudeFirst(@, line.text),
                        !.messages = Append(@, Msg("user", a.sequence, line.shape)),
                        !.sequence = @ + 1]
         ELSE IF line.kind = "assistant"
         THEN [a EXCEPT !.model = IF @ = "none" THEN line.model ELSE @,
                        !.messages = Append(@, Msg("assistant", a.sequence, line.shape)),
                        !.sequence = @ + 1]
         ELSE a

\* the message type parse_codex_session gives a response_item
CodexType(kind) ==
    CASE kind = "msg_user" -> "user"
      [] kind = "msg_assistant" -> "assistant"
      [] kind = "function_call" -> "assistant"
      [] OTHER -> "tool_result"

\* the id a session_meta payload carries
MetaId == "m1"

\* parse_codex_session: "Parse session metadata"; payload.get("id", stem)
\* gives the stem (written "stem" here) when the payload has no id
CodexSessionMeta(acc, line) ==
    [acc EXCEPT !.id = IF line.id = "none" THEN "stem" ELSE line.id,
                !.cwd = line.cwd,
                !.created_at = line.ts,
                !.updated_at = line.ts,
                !.model = IF line.model # "none" THEN line.model ELSE @]

\* parse_codex_session: "Capture first user message"
CodexFirst(first, text) ==
    LET cleaned == strip_xml_tags(text) IN
    IF IsEmpty(first) /\ text # NoText /\ ~IsEmpty(cleaned) /\ ~is_system_message(text)
    THEN Truncate(cleaned)
    ELSE first

\* parse_codex_session: "Update session timestamp", at the end of the loop body
CodexStamp(acc, line) ==
    [acc EXCEPT !.updated_at = IF line.ts # 0 THEN line.ts ELSE @]

\* parse_codex_session, the loop body for one line of the file
CodexEntry(acc, line) ==
    IF acc.raised \/ ~Yields(line) THEN acc
    ELSE IF ReadRaises(line) \/ line.kind = "nondict"
         THEN [acc EXCEPT !.raised = TRUE]
    ELSE IF line.kind = "session_meta"
         THEN CodexStamp(CodexSessionMeta(acc, line), line)
    ELSE IF line.kind \in {"msg_user", "msg_assistant", "function_call",
                           "function_call_output"}
         THEN CodexStamp(
                [acc EXCEPT !.first = IF line.kind = "msg_user"
                                      THEN CodexFirst(@, line.text) ELSE @,
                            !.messages = Append(@, Msg(CodexType(line.kind), acc.sequence, line.shape)),
                            !.sequence = @ + 1], line)
    ELSE CodexStamp(acc, line)

\* the loop over the lines; the state after a line is bound as a value, so
\* that it is worked out once
RECURSIVE ClaudeLoop(_, _)
ClaudeLoop(acc, lines) ==
    IF lines = <<>> THEN acc
    ELSE CHOOSE end \in {ClaudeLoop(next, Tail(lines)) :
                             next \in {ClaudeEntry(acc, Head(lines))}} : TRUE

RECURSIVE CodexLoop(_, _)
CodexLoop(acc, lines) ==
    IF lines = <<>> THEN acc
    ELSE CHOOSE end \in {CodexLoop(next, Tail(lines)) :
                             next \in {CodexEntry(acc, Head(lines))}} : TRUE

\* session_meta["display"] = first_user_message or "No user message"
NoUserMessage == Txt("No user message", 0)
Display(first) == IF IsEmpty(first) THEN NoUserMessage ELSE first

SessionMeta(id, source, p, n) ==
    [id |-> id, source |-> source, file_path |-> p, message_count |-> n]
NoSession == SessionMeta("none", "none", "none", 0)
Raised == [raised |-> TRUE, none |-> FALSE, session |-> NoSession, messages |-> <<>>]
ParsedNone == [raised |-> FALSE, none |-> TRUE, session |-> NoSession, messages |-> <<>>]
Parsed(meta, msgs) == [raised |-> FALSE, none |-> FALSE, session |-> meta, messages |-> msgs]

\* what parse_claude_session makes of an accumulated loop state
ClaudeResult(p, acc) ==
    IF acc.raised THEN Raised
    ELSE IF Len(acc.messages) = 0 THEN ParsedNone
    ELSE Parsed(SessionMeta(Stem(p), "claude", p, Len(acc.messages)), acc.messages)

\* what parse_codex_session makes of an accumulated loop state
CodexResult(p, acc) ==
    IF acc.raised THEN Raised
    ELSE Parsed(SessionMeta(IF acc.id \in {"none", "stem"} THEN Stem(p) ELSE acc.id,
                            "codex", p, Len(acc.messages)), acc.messages)

parse_claude_session(p, lines) == ClaudeResult(p, ClaudeLoop(ParseStart, lines))
parse_codex_session(p, lines) == CodexResult(p, CodexLoop(ParseStart, lines))

\* -------------------------------------------------------------------- state
VARIABLES
    fs,            \* transcript files: path -> [present, lines]
    side,          \* files beside the transcripts: subagent transcripts, todo files
    db,            \* the committed tables: sessions, messages, subagents, associated_files
    is_indexing,   \* indexer._is_indexing
    last_indexed,  \* indexer._last_indexed: 0 is None, n the clock at the n-th completion
    task,          \* the invocations of index_all_sessions: 0 at startup, 1.. by refresh
    ret,           \* what the invocation that returned last gave its caller
    nreq,          \* refresh requests answered so far
    writes,        \* writes to transcript files so far
    dirty,         \* (history) the runs during which a transcript file was written
    streak,        \* (history) completed runs over an unchanged tree, see RunEnds
    pfmt, plines, ppos, pacc,  \* the parser specification: format, input, position, loop state
    req,           \* the requests for the messages of a subagent
    tree,          \* the scanner specification: the entries under a root directory
    scan           \* the scanner specification: the function applied and its result

ixvars == <<fs, side, db, is_indexing, last_indexed, task, ret, nreq, writes, dirty, streak,
            req>>
pvars == <<pfmt, plines, ppos, pacc>>
scvars == <<tree, scan>>
vars == <<fs, side, db, is_indexing, last_indexed, task, ret, nreq, writes, dirty, streak,
          pfmt, plines, ppos, pacc, req, tree, scan>>

TaskIds == 0..MaxRefresh
ReqIds == 1..MaxLoads

\* --------------------------------------------------------------- the store
EmptyTables == [sessions |-> <<>>, messages |-> <<>>, subagents |-> <<>>,
                associated_files |-> <<>>]

Range(s) == {s[i] : i \in 1..Len(s)}
SessionIds(tables) == {tables.sessions[i].id : i \in 1..Len(tables.sessions)}

\* select(Session).where(Session.file_path == str(file_path)) finds a row
HasFilePath(tables, p) == \E i \in 1..Len(tables.sessions) : tables.sessions[i].file_path = p

\* a faulty variant: the id column carries no key constraint
PrimaryKeyUnchecked(tables, pending) == FALSE

\* models.Session.id is the primary key: an INSERT of a pending Session whose
\* id is stored already, or is pending twice, fails
PrimaryKeyFails(tables, pending) ==
    \/ \E i \in 1..Len(pending.sessions) : pending.sessions[i].id \in SessionIds(tables)
    \/ \E i, j \in 1..Len(pending.sessions) :
           i # j /\ pending.sessions[i].id = pending.sessions[j].id

Concat(tables, pending) ==
    [sessions |-> tables.sessions \o pending.sessions,
     messages |-> tables.messages \o pending.messages,
     subagents |-> tables.subagents \o pending.subagents,
     associated_files |-> tables.associated_files \o pending.associated_files]

\* ForeignKey("sessions.id") with PRAGMA foreign_keys=ON: a child row needs its Session
ForeignKeyFails(tables) ==
    \E r \in Range(tables.messages) \cup Range(tables.subagents)
             \cup Range(tables.associated_files) : r.session_id \notin SessionIds(tables)

\* a faulty variant: the flush is not one transaction, the Messages stay
\* although the INSERT of their Session failed
CommitPartial(tables, pending) ==
    IF PrimaryKeyFails(tables, pending)
    THEN [raised |-> TRUE, db |-> [tables EXCEPT !.messages = @ \o pending.messages]]
    ELSE IF ForeignKeyFails(Concat(tables, pending))
    THEN [raised |-> TRUE, db |-> tables]
    ELSE [raised |-> FALSE, db |-> Concat(tables, pending)]

\* AsyncSession.commit: flush the pending rows in one transaction
Commit(tables, pending) ==
    IF PrimaryKeyFails(tables, pending) \/ ForeignKeyFails(Concat(tables, pending))
    THEN [raised |-> TRUE, db |-> tables]
    ELSE [raised |-> FALSE, db |-> Concat(tables, pending)]

\* AsyncSession.rollback: the pending rows are dropped
Rollback(pending) == EmptyTables

\* ------------------------------------------------------- rows of one file
SessionRow(meta, id) ==
    [id |-> id, source |-> meta.source, file_path |-> meta.file_path,
     message_count |-> meta.message_count, subagent_count |-> 0]
MessageRow(sid, agent, m) ==
    [session_id |-> sid, agent_id |-> agent, type |-> m.type, sequence |-> m.sequence]
MessageRows(sid, agent, msgs) == [i \in 1..Len(msgs) |-> MessageRow(sid, agent, msgs[i])]

RECURSIVE SetToSeq(_)
SetToSeq(S) == IF S = {} THEN <<>>
               ELSE LET x == CHOOSE y \in S : TRUE IN <<x>> \o SetToSeq(S \ {x})

\* find_claude_subagents: project_dir / session_id / "subagents" / *.jsonl
find_claude_subagents(session_id, project_dir, sd) ==
    SetToSeq({f \in sd.subagents :
                 SubagentProject(f) = project_dir /\ SubagentSession(f) = session_id})
\* a faulty variant: the reference is written without the file path
SubagentRowsNoPath(sid, files) ==
    [i \in 1..Len(files) |->
        [session_id |-> sid, agent_id |-> Stem(files[i]), file_path |-> "none",
         message_count |-> 0, first_message |-> "none"]]

\* Subagent(session_id, agent_id = subagent_file.stem, file_path); the
\* message count is the column default, first_message is NULL
SubagentRows(sid, files) ==
    [i \in 1..Len(files) |->
        [session_id |-> sid, agent_id |-> Stem(files[i]), file_path |-> files[i],
         message_count |-> 0, first_message |-> "none"]]

\* find_associated_files: the fixed side files of a session id
find_associated_files(session_id, sd) ==
    SetToSeq({k \in {"todo"} : session_id \in sd.todos})
AssociatedRows(sid, keys) ==
    [i \in 1..Len(keys) |-> [session_id |-> sid, file_type |-> keys[i]]]

\* ------------------------------------------------------------- the indexer
Outcome(tables, pending, what, n, parsedIt) ==
    [db |-> tables, pending |-> pending, outcome |-> what, n |-> n, parsed |-> parsedIt]

\* a faulty variant: the lookup is made whether forcing or not
AlreadyIndexedAlways(tables, p, force) == HasFilePath(tables, p)

\* "Check if already indexed": the lookup by file_path, unless forcing
AlreadyIndexed(tables, p, force) == ~force /\ HasFilePath(tables, p)

\* a faulty variant: subagent_count stays at the 0 the Session is made with
AddClaudeNoCount(pending, parsed, subfiles, keys) ==
    LET sid == parsed.session.id IN
    [sessions |-> Append(pending.sessions, SessionRow(parsed.session, sid)),
     messages |-> pending.messages \o MessageRows(sid, "none", parsed.messages),
     subagents |-> pending.subagents \o SubagentRows(sid, subfiles),
     associated_files |-> pending.associated_files \o AssociatedRows(sid, keys)]

\* db.add of the Session, its Messages, Subagents and AssociatedFiles
AddClaude(pending, parsed, subfiles, keys) ==
    LET sid == parsed.session.id IN
    [sessions |-> Append(pending.sessions,
                         [SessionRow(parsed.session, sid) EXCEPT
                              !.subagent_count = Len(subfiles)]),
     messages |-> pending.messages \o MessageRows(sid, "none", parsed.messages),
     subagents |-> pending.subagents \o SubagentRows(sid, subfiles),
     associated_files |-> pending.associated_files \o AssociatedRows(sid, keys)]

\* await db.commit() of the rows added for one file, with n messages: on
\* an exception the rollback of the except branch, else the counts. The
\* parse result and the added rows are bound as values, worked out once
Flush(tables, n, rows) ==
    CHOOSE out \in
        {LET c == Commit(tables, added)
         IN IF c.raised
            THEN Outcome(c.db, Rollback(added), "error", 0, TRUE)
            ELSE Outcome(c.db, EmptyTables, "committed", n, TRUE)
           : added \in {rows}} : TRUE

\* one iteration of the loop of _index_claude_sessions
index_claude_file(tables, pending, files, sd, p, force) ==
    IF AlreadyIndexed(tables, p, force)
    THEN Outcome(tables, pending, "skipped", 0, FALSE)
    ELSE CHOOSE out \in
        {IF parsed.raised
         THEN Outcome(tables, Rollback(pending), "error", 0, TRUE)
         ELSE IF parsed.none
         THEN Outcome(tables, pending, "empty", 0, TRUE)
         ELSE LET sid == parsed.session.id
              IN Flush(tables, Len(parsed.messages),
                       AddClaude(pending, parsed,
                                 find_claude_subagents(sid, ProjectDir(p), sd),
                                 find_associated_files(sid, sd)))
           : parsed \in {parse_claude_session(p, files[p].lines)}} : TRUE

\* db.add of the Session (id: the filename stem) and its Messages
AddCodex(pending, parsed, p) ==
    LET sid == Stem(p) IN
    [pending EXCEPT
        !.sessions = Append(@, SessionRow(parsed.session, sid)),
        !.messages = @ \o MessageRows(sid, "none", parsed.messages)]

\* one iteration of the loop of _index_codex_sessions
index_codex_file(tables, pending, files, p, force) ==
    IF AlreadyIndexed(tables, p, force)
    THEN Outcome(tables, pending, "skipped", 0, FALSE)
    ELSE CHOOSE out \in
        {IF parsed.raised
         THEN Outcome(tables, Rollback(pending), "error", 0, TRUE)
         ELSE IF parsed.none
         THEN Outcome(tables, pending, "empty", 0, TRUE)
         ELSE Flush(tables, Len(parsed.messages), AddCodex(pending, parsed, p))
           : parsed \in {parse_codex_session(p, files[p].lines)}} : TRUE

\* the scanners yield the files that exist, in directory order: the position
\* of the next one after position i, 0 when the generator is exhausted
NextCand(order, i, files) ==
    IF \E j \in (i + 1)..Len(order) : files[order[j]].present
    THEN CHOOSE j \in (i + 1)..Len(order) :
             /\ files[order[j]].present
             /\ \A k \in (i + 1)..(j - 1) : ~files[order[k]].present
    ELSE 0

Candidates(files) == {p \in Paths : files[p].present}

Formats == {"claude", "codex"}
\* projects_dir.exists() / sessions_dir.exists()
RootExists(sd, fmt) == fmt \in sd.roots

\* a faulty variant: the root is listed without the test, and iterdir raises
\* for a root that is not there
ScanMayRaiseAlways(sd, fmt) == TRUE

\* scan_claude_sessions / scan_codex_sessions return before the first
\* iterdir when the root does not exist: listing can fail under a root only
ScanMayRaise(sd, fmt) == RootExists(sd, fmt)

ZeroLocal == [session_count |-> 0, message_count |-> 0, error_count |-> 0]
ZeroCounts == [claude_sessions |-> 0, codex_sessions |-> 0, total_messages |-> 0,
               errors |-> 0]

\* the local counters after one file
Tally(loc, r) ==
    [session_count |-> loc.session_count + (IF r.outcome = "committed" THEN 1 ELSE 0),
     message_count |-> loc.message_count + r.n,
     error_count |-> loc.error_count + (IF r.outcome = "error" THEN 1 ELSE 0)]

\* an invocation of index_all_sessions; parsed, visited, committed and
\* errored are history: the files it has parsed, has been given by the
\* scanners, has committed, and has counted as errors
NoTask == [pc |-> "unborn", force |-> FALSE, fmt |-> "none", idx |-> 0,
           loc |-> ZeroLocal, counts |-> ZeroCounts,
           answer |-> "none", pending |-> EmptyTables, parsed |-> {}, visited |-> {},
           committed |-> {}, errored |-> {}]
\* an invocation that has returned
Done == [NoTask EXCEPT !.pc = "returned"]
\* what an invocation returns: {"status": "already_running"}, or the counts
Return(t, status, counts) == [task |-> t, status |-> status, counts |-> counts]
NoReturn == Return(0, "none", ZeroCounts)

\* a faulty variant: the flag is set without being checked
TryStartUnchecked(flag) == [accepted |-> TRUE, flag |-> TRUE]

\* a faulty variant: the check sits inside the try, whose finally clause
\* clears the flag of the run in progress
TryStartClears(flag) ==
    IF flag THEN [accepted |-> FALSE, flag |-> FALSE]
    ELSE [accepted |-> TRUE, flag |-> TRUE]

\* index_all_sessions up to the try: the check of the flag and its setting,
\* with no suspension point between them
TryStart(flag) ==
    IF flag THEN [accepted |-> FALSE, flag |-> flag]
    ELSE [accepted |-> TRUE, flag |-> TRUE]

\* ------------------------------------------------- the subagent lazy loader
\* the status codes of the answers
Ok == 200
NotFound == 404
ServerError == 500

\* select(Subagent).where(session_id, agent_id): the positions of the rows
SubagentsOf(tables, sid, agent) ==
    {i \in 1..Len(tables.subagents) :
        tables.subagents[i].session_id = sid /\ tables.subagents[i].agent_id = agent}

\* .order_by(Message.sequence): the rows of sequence k, k + 1, ... in turn
RECURSIVE OrderBySequence(_, _)
OrderBySequence(rows, k) ==
    IF \A i \in 1..Len(rows) : rows[i].sequence < k THEN <<>>
    ELSE SelectSeq(rows, LAMBDA m : m.sequence = k) \o OrderBySequence(rows, k + 1)

\* msg_query: the Messages of (session_id, agent_id) in the order of sequence
CachedMessages(tables, sid, agent) ==
    OrderBySequence(SelectSeq(tables.messages,
                              LAMBDA m : m.session_id = sid /\ m.agent_id = agent), 0)

\* get_session_messages: 404 when the Session is not there, else the
\* Messages where Message.session_id == session_id, in the order of sequence
get_session_messages(tables, sid) ==
    IF sid \notin SessionIds(tables) THEN [status |-> NotFound, messages |-> <<>>]
    ELSE [status |-> Ok,
          messages |-> OrderBySequence(
              SelectSeq(tables.messages, LAMBDA m : m.session_id = sid), 0)]

NoUpdate == [message_count |-> 0, first_message |-> "none"]
Loaded(status, rows, update) == [status |-> status, pending |-> rows, update |-> update]

\* "Update subagent metadata": first_message is content.get("content", "")[:200]
\* of the first message, a string cut to 200 characters ("text") or, when
\* the content is a list of blocks, a list of at most 200 blocks ("list")
FirstMessage(msgs) == IF msgs[1].shape = "str" THEN "text" ELSE "list"


\* get_subagent_messages, "Parse subagent file if we have the path" up to the
\* commit: the rows added to the ORM session and the change of the Subagent
LazyParse(sub, sd) ==
    IF sub.file_path = "none" THEN Loaded("empty", <<>>, NoUpdate)
    ELSE LET parsed == parse_claude_session(sub.file_path, sd.sublines) IN
         IF parsed.raised THEN Loaded("raised", <<>>, NoUpdate)
         ELSE IF parsed.none THEN Loaded("empty", <<>>, NoUpdate)
         ELSE Loaded("pending",
                     MessageRows(sub.session_id, sub.agent_id, parsed.messages),
                     [message_count |-> Len(parsed.messages),
                      first_message |-> FirstMessage(parsed.messages)])


\* Subagent.first_message is a Text column: the driver cannot bind a list
BindFails(update) == update.first_message = "list"

\* a faulty variant: the flush writes the Messages before the UPDATE fails
CommitLoadPartial(tables, pending, sub, update) ==
    IF BindFails(update)
    THEN [raised |-> TRUE, db |-> [tables EXCEPT !.messages = @ \o pending]]
    ELSE LET c == Commit(tables, [EmptyTables EXCEPT !.messages = pending]) IN
         IF c.raised THEN c
         ELSE [raised |-> FALSE,
               db |-> [c.db EXCEPT !.subagents[sub] =
                          [@ EXCEPT !.message_count = update.message_count,
                                    !.first_message = update.first_message]]]

\* db.commit of the loader: the INSERT of the Messages and the UPDATE of the
\* Subagent in one transaction
CommitLoad(tables, pending, sub, update) ==
    IF BindFails(update) THEN [raised |-> TRUE, db |-> tables]
    ELSE LET c == Commit(tables, [EmptyTables EXCEPT !.messages = pending]) IN
         IF c.raised THEN c
         ELSE [raised |-> FALSE,
               db |-> [c.db EXCEPT !.subagents[sub] =
                          [@ EXCEPT !.message_count = update.message_count,
                                    !.first_message = update.first_message]]]

\* a request for GET /sessions/{sid}/subagents/{agent}/messages; parsed,
\* before and earlier are history: whether it parsed the file, the rows of
\* the store when it arrived, what earlier requests for the pair were given
NoReq == [pc |-> "idle", sid |-> "none", agent |-> "none", sub |-> 0,
          pending |-> <<>>, update |-> NoUpdate,
          status |-> 0, messages |-> <<>>,
          parsed |-> FALSE, before |-> 0, earlier |-> {}]
\* the response: the status code and the body
Answer(r, status, messages) ==
    [r EXCEPT !.pc = "done", !.status = status, !.messages = messages,
              !.pending = <<>>, !.update = NoUpdate]

\* a faulty variant: the flag is left as it is when the run ends
FinallyKeeps(flag) == flag

\* index_all_sessions, the finally clause: _is_indexing = False
Finally(flag) == FALSE

\* a faulty variant: the exception goes on to the caller
FailedRaises(t, counts) == Return(t, "raised", counts)

\* index_all_sessions, the except clause: one more error, the counts returned
Failed(t, counts) == Return(t, "failed", [counts EXCEPT !.errors = @ + 1])

\* ---------------------------------------------------------- initial state
ClaudeMenu == {NoFile,
               File(<<L("other")>>),
               File(<<L("user"), L("bad"), L("assistant")>>),
               File(<<L("user"), L("nondict")>>)}
CodexMenu == {NoFile,
              File(<<L("session_meta")>>),
              File(<<L("session_meta"), L("msg_user"), L("function_call")>>),
              File(<<L("msg_user"), L("ioerr")>>)}
\* what a subagent transcript holds, the same for each of them
SubagentLines == <<L("user"), L("assistant")>>
\* the subagent transcripts and <claude>/todos/s1.md are there, or are not;
\* roots: which of <claude>/projects ("claude") and <codex>/sessions
\* ("codex") exist
SideMenu == {[subagents |-> sub[1], todos |-> sub[2], sublines |-> SubagentLines,
              roots |-> roots] :
                sub \in {<<{}, {}>>, <<{SubagentFile, SubagentFile2}, {"s1"}>>},
                roots \in SUBSET Formats}
\* a file is under its root, and a subagent transcript under <claude>/projects
UnderRoots(files, sd) ==
    /\ \A p \in ClaudePaths : files[p].present => RootExists(sd, "claude")
    /\ \A p \in CodexPaths : files[p].present => RootExists(sd, "codex")
    /\ sd.subagents # {} => RootExists(sd, "claude")

NoStreak == [n |-> 0, force |-> FALSE, base |-> <<0, 0>>, all |-> FALSE]

NoScan == [op |-> "none", sid |-> "none", raised |-> FALSE, yielded |-> {}, files |-> {}]
ScannerIdle == /\ tree = {}
               /\ scan = NoScan

ParserIdle == /\ pfmt = "none"
              /\ plines = <<>>
              /\ ppos = 0
              /\ pacc = ParseStart

\* main.lifespan: the tables are created, the database is empty, and the
\* initial indexing is called before the application serves any request
Init ==
    /\ fs \in {f \in [Paths -> ClaudeMenu \cup CodexMenu] :
                  /\ \A p \in ClaudePaths : f[p] \in ClaudeMenu
                  /\ \A p \in CodexPaths : f[p] \in CodexMenu}
    /\ side \in SideMenu
    /\ UnderRoots(fs, side)
    /\ db = EmptyTables
    /\ is_indexing = FALSE
    /\ last_indexed = 0
    /\ task = [t \in TaskIds |-> IF t = 0 THEN [NoTask EXCEPT !.pc = "queued"] ELSE NoTask]
    /\ ret = NoReturn
    /\ nreq = 0
    /\ writes = 0
    /\ dirty = {}
    /\ streak = NoStreak
    /\ ParserIdle
    /\ ScannerIdle
    /\ req = [r \in ReqIds |-> NoReq]

\* ----------------------------------------------------------------- actions
\* index_all_sessions, from the call to the first suspension point
IndexAllStart(t) ==
    /\ task[t].pc = "queued"
    /\ LET r == TryStart(is_indexing) IN
       /\ is_indexing' = r.flag
       /\ task' = [task EXCEPT ![t] =
              IF r.accepted
              THEN [@ EXCEPT !.pc = "running", !.fmt = "claude"]
              ELSE Done]
       /\ ret' = IF r.accepted THEN ret ELSE Return(t, "already_running", ZeroCounts)
    /\ dirty' = dirty \ {t}
    /\ UNCHANGED <<fs, side, db, last_indexed, nreq, writes, streak>>
    /\ UNCHANGED <<pvars, req, scvars>>

\* _index_claude_sessions: the next file of scan_claude_sessions
IndexClaudeFile(t) ==
    /\ task[t].pc = "running"
    /\ task[t].fmt = "claude"
    /\ LET j == NextCand(ClaudeOrder, task[t].idx, fs) IN
       /\ j # 0
       /\ LET p == ClaudeOrder[j]
              r == index_claude_file(db, task[t].pending, fs, side, p, task[t].force)
          IN /\ db' = r.db
             /\ task' = [task EXCEPT ![t] =
                    [@ EXCEPT !.idx = j,
                              !.loc = Tally(@, r),
                              !.pending = r.pending,
                              !.parsed = IF r.parsed THEN @ \cup {p} ELSE @,
                              !.visited = @ \cup {p},
                              !.committed = IF r.outcome = "committed" THEN @ \cup {p} ELSE @,
                              !.errored = IF r.outcome = "error" THEN @ \cup {p} ELSE @]]
    /\ UNCHANGED <<ret, fs, side, is_indexing, last_indexed, nreq, writes, dirty, streak>>
    /\ UNCHANGED <<pvars, req, scvars>>

\* scan_claude_sessions is exhausted: the counts of Format A are taken over
\* and the loop of _index_codex_sessions starts
IndexClaudeDone(t) ==
    /\ task[t].pc = "running"
    /\ task[t].fmt = "claude"
    /\ NextCand(ClaudeOrder, task[t].idx, fs) = 0
    /\ task' = [task EXCEPT ![t] =
           [@ EXCEPT !.fmt = "codex", !.idx = 0, !.loc = ZeroLocal,
                     !.counts = [@ EXCEPT
                         !.claude_sessions = task[t].loc.session_count,
                         !.total_messages = @ + task[t].loc.message_count,
                         !.errors = @ + task[t].loc.error_count]]]
    /\ UNCHANGED <<ret, fs, side, db, is_indexing, last_indexed, nreq, writes, dirty, streak>>
    /\ UNCHANGED <<pvars, req, scvars>>

\* _index_codex_sessions: the next file of scan_codex_sessions
IndexCodexFile(t) ==
    /\ task[t].pc = "running"
    /\ task[t].fmt = "codex"
    /\ LET j == NextCand(CodexOrder, task[t].idx, fs) IN
       /\ j # 0
       /\ LET p == CodexOrder[j]
              r == index_codex_file(db, task[t].pending, fs, p, task[t].force)
          IN /\ db' = r.db
             /\ task' = [task EXCEPT ![t] =
                    [@ EXCEPT !.idx = j,
                              !.loc = Tally(@, r),
                              !.pending = r.pending,
                              !.parsed = IF r.parsed THEN @ \cup {p} ELSE @,
                              !.visited = @ \cup {p},
                              !.committed = IF r.outcome = "committed" THEN @ \cup {p} ELSE @,
                              !.errored = IF r.outcome = "error" THEN @ \cup {p} ELSE @]]
    /\ UNCHANGED <<ret, fs, side, is_indexing, last_indexed, nreq, writes, dirty, streak>>
    /\ UNCHANGED <<pvars, req, scvars>>

\* (history) a run that completed while no transcript was written: the second
\* in a row of the same mode keeps the row counts the first one ended with
RunEnds(t) ==
    IF t \in dirty THEN NoStreak
    ELSE IF streak.n >= 1 /\ streak.force = task[t].force
    THEN [streak EXCEPT !.n = 2, !.all = (task[t].parsed = Candidates(fs))]
    ELSE [n |-> 1, force |-> task[t].force,
          base |-> <<Len(db.sessions), Len(db.messages)>>,
          all |-> (task[t].parsed = Candidates(fs))]

\* scan_codex_sessions is exhausted: the counts of Format B are taken over,
\* _last_indexed is set, the counts are returned and the finally clause
\* clears the flag
IndexCodexDone(t) ==
    /\ task[t].pc = "running"
    /\ task[t].fmt = "codex"
    /\ NextCand(CodexOrder, task[t].idx, fs) = 0
    /\ ret' = Return(t, "ok",
                      [task[t].counts EXCEPT
                          !.codex_sessions = task[t].loc.session_count,
                          !.total_messages = @ + task[t].loc.message_count,
                          !.errors = @ + task[t].loc.error_count])
    /\ task' = [task EXCEPT ![t] = Done]
    /\ last_indexed' = last_indexed + 1
    /\ is_indexing' = Finally(is_indexing)
    /\ streak' = RunEnds(t)
    /\ UNCHANGED <<fs, side, db, nreq, writes, dirty>>
    /\ UNCHANGED <<pvars, req, scvars>>

\* a scanner raises between two files (a directory cannot be listed): the
\* except clause of index_all_sessions counts one error and returns the
\* counts taken over so far, the finally clause clears the flag
IndexAbort(t) ==
    /\ task[t].pc = "running"
    /\ ScanMayRaise(side, task[t].fmt)
    /\ ret' = Failed(t, task[t].counts)
    /\ task' = [task EXCEPT ![t] = Done]
    /\ is_indexing' = Finally(is_indexing)
    /\ streak' = NoStreak
    /\ UNCHANGED <<fs, side, db, last_indexed, nreq, writes, dirty>>
    /\ UNCHANGED <<pvars, req, scvars>>

\* POST /index/refresh: answers from the flag, and adds the background task
RefreshIndex(force) ==
    /\ task[0].pc = "returned"
    /\ nreq < MaxRefresh
    /\ nreq' = nreq + 1
    /\ task' = [task EXCEPT ![nreq + 1] =
           IF is_indexing
           THEN [@ EXCEPT !.pc = "dropped", !.answer = "already_running"]
           ELSE [@ EXCEPT !.pc = "queued", !.answer = "started", !.force = force]]
    /\ UNCHANGED <<ret, fs, side, db, is_indexing, last_indexed, writes, dirty, streak>>
    /\ UNCHANGED <<pvars, req, scvars>>

\* the assistant tools write a transcript: a record is appended (creating the
\* file), or the file is written anew
WriteLine(p) == IF p \in ClaudePaths THEN L("user") ELSE L("msg_user")
WriteFile(p, anew) ==
    /\ writes < MaxWrites
    /\ writes' = writes + 1
    /\ fs' = [fs EXCEPT ![p] =
           File(IF anew THEN <<WriteLine(p)>> ELSE Append(@.lines, WriteLine(p)))]
    /\ dirty' = dirty \cup {t \in TaskIds : task[t].pc = "running"}
    /\ streak' = NoStreak
    /\ UNCHANGED <<ret, side, db, is_indexing, last_indexed, task, nreq>>
    /\ UNCHANGED <<pvars, req, scvars>>

Next ==
    \/ \E t \in TaskIds : IndexAllStart(t)
    \/ \E t \in TaskIds : IndexClaudeFile(t)
    \/ \E t \in TaskIds : IndexClaudeDone(t)
    \/ \E t \in TaskIds : IndexCodexFile(t)
    \/ \E t \in TaskIds : IndexCodexDone(t)
    \/ \E t \in TaskIds : IndexAbort(t)
    \/ \E force \in BOOLEAN : RefreshIndex(force)

\* the application over a tree of transcripts that nobody writes
Spec == Init /\ [][Next]_vars

\* The coordinator under its scheduler: the event loop resumes a coroutine
\* that can go on, so a run that has a step to take takes it. Over the trees
\* of InitLive: a transcript that parses, one that may raise, one whose id
\* may be taken, and a Format B file.
InitLive ==
    /\ Init
    /\ fs["cA"] = File(<<L("user"), L("bad"), L("assistant")>>)
    /\ fs["cB"] \in {NoFile, File(<<L("user"), L("nondict")>>)}
    /\ fs["cC"] \in {NoFile, File(<<L("user"), L("bad"), L("assistant")>>)}
    /\ fs["xA"] \in {NoFile, File(<<L("session_meta"), L("msg_user"), L("function_call")>>)}
    /\ side.subagents # {}
SpecLive ==
    /\ InitLive
    /\ [][Next]_vars
    /\ WF_vars(\E t \in TaskIds : IndexAllStart(t))
    /\ WF_vars(\E t \in TaskIds : IndexClaudeFile(t))
    /\ WF_vars(\E t \in TaskIds : IndexClaudeDone(t))
    /\ WF_vars(\E t \in TaskIds : IndexCodexFile(t))
    /\ WF_vars(\E t \in TaskIds : IndexCodexDone(t))

\* the application while the assistant tools write transcripts
InitEnv ==
    /\ Init
    /\ fs["cA"] = File(<<L("user"), L("bad"), L("assistant")>>)
    /\ fs["cB"] \in {NoFile, File(<<L("user"), L("nondict")>>)}
    /\ fs["cC"] \in {NoFile, File(<<L("user"), L("bad"), L("assistant")>>)}
    /\ fs["xA"] \in {File(<<L("session_meta")>>),
                     File(<<L("session_meta"), L("msg_user"), L("function_call")>>)}
    /\ side.subagents # {}

NextEnv ==
    \/ Next
    \/ \E p \in Paths, anew \in BOOLEAN : WriteFile(p, anew)

SpecEnv == InitEnv /\ [][NextEnv]_vars

\* ------------------------------------------------- requests to the loader
InFlight == {r \in ReqIds : req[r].pc \notin {"idle", "done"}}
\* what the requests for (sid, agent) answered so far were given
GivenFor(sid, agent) ==
    {req[q].messages : q \in {x \in ReqIds : /\ req[x].pc = "done"
                                             /\ req[x].sid = sid /\ req[x].agent = agent
                                             /\ req[x].status = Ok
                                             /\ req[x].messages # <<>>}}

\* get_subagent_messages: "Get subagent record"
LoadStart(r, sid, agent) ==
    /\ req[r].pc = "idle"
    /\ \A q \in 1..(r - 1) : req[q].pc # "idle"
    /\ LET found == SubagentsOf(db, sid, agent)
           arrived == [req[r] EXCEPT !.sid = sid, !.agent = agent,
                                     !.before = Len(db.messages),
                                     !.earlier = GivenFor(sid, agent)]
       IN req' = [req EXCEPT ![r] =
              IF found = {} THEN Answer(arrived, NotFound, <<>>)
              ELSE IF Cardinality(found) > 1 THEN Answer(arrived, ServerError, <<>>)
              ELSE [arrived EXCEPT !.pc = "found", !.sub = CHOOSE i \in found : TRUE]]
    /\ UNCHANGED <<fs, side, db, is_indexing, last_indexed, task, ret, nreq, writes, dirty,
                   streak>>
    /\ UNCHANGED <<pvars, scvars>>

\* a request that arrives while no other one is being served
LoadStartAlone(r, sid, agent) ==
    /\ InFlight = {}
    /\ LoadStart(r, sid, agent)

\* "Check if we have cached messages", and if there are none the parse of
\* the subagent's file, up to the commit
LoadCheck(r) ==
    /\ req[r].pc = "found"
    /\ LET cached == CachedMessages(db, req[r].sid, req[r].agent)
           sub == db.subagents[req[r].sub]
           load == LazyParse(sub, side)
       IN req' = [req EXCEPT ![r] =
              IF cached # <<>> THEN Answer(@, Ok, cached)
              ELSE IF load.status = "empty"
                   THEN [Answer(@, Ok, <<>>) EXCEPT !.parsed = (sub.file_path # "none")]
              ELSE IF load.status = "raised"
                   THEN [Answer(@, ServerError, <<>>) EXCEPT !.parsed = TRUE]
              ELSE [@ EXCEPT !.pc = "committing", !.parsed = TRUE,
                             !.pending = load.pending, !.update = load.update]]
    /\ UNCHANGED <<fs, side, db, is_indexing, last_indexed, task, ret, nreq, writes, dirty,
                   streak>>
    /\ UNCHANGED <<pvars, scvars>>

\* await db.commit(); an exception is answered with HTTP 500, and the ORM
\* session is closed without a commit
LoadCommit(r) ==
    /\ req[r].pc = "committing"
    /\ LET c == CommitLoad(db, req[r].pending, req[r].sub, req[r].update) IN
       /\ db' = c.db
       /\ req' = [req EXCEPT ![r] =
              IF c.raised THEN Answer(@, ServerError, <<>>)
              ELSE [@ EXCEPT !.pc = "committed", !.pending = <<>>, !.update = NoUpdate]]
    /\ UNCHANGED <<fs, side, is_indexing, last_indexed, task, ret, nreq, writes, dirty, streak>>
    /\ UNCHANGED <<pvars, scvars>>

\* "Return cached messages": msg_query is run again
LoadReturn(r) ==
    /\ req[r].pc = "committed"
    /\ req' = [req EXCEPT ![r] = Answer(@, Ok, CachedMessages(db, req[r].sid, req[r].agent))]
    /\ UNCHANGED <<fs, side, db, is_indexing, last_indexed, task, ret, nreq, writes, dirty,
                   streak>>
    /\ UNCHANGED <<pvars, scvars>>

\* the pairs (session id, agent id) that are asked for
LoadKeys == {<<"s1", "a1">>, <<"s1", "a2">>, <<"s2", "a1">>}
\* what the subagent transcripts hold: two messages; the same with a first
\* message whose content is a list of blocks; no message; a record that
\* makes the parser raise
SublinesMenu == {SubagentLines,
                 <<[L("user") EXCEPT !.shape = "list"], L("assistant")>>,
                 <<L("other")>>,
                 <<L("user"), L("nondict")>>}

\* the store and the coordinator once the startup run over a tree of one
\* Format A transcript with two subagent transcripts has completed
InitLazy ==
    /\ fs = [p \in Paths |-> IF p = "cA" THEN File(<<L("user"), L("bad"), L("assistant")>>)
                             ELSE NoFile]
    /\ side \in {[subagents |-> {SubagentFile, SubagentFile2}, todos |-> {"s1"},
                  sublines |-> ls, roots |-> Formats] : ls \in SublinesMenu}
    /\ db = index_claude_file(EmptyTables, EmptyTables, fs, side, "cA", FALSE).db
    /\ is_indexing = FALSE
    /\ last_indexed = 1
    /\ task = [t \in TaskIds |-> IF t = 0 THEN Done ELSE NoTask]
    /\ ret = Return(0, "ok", [ZeroCounts EXCEPT !.claude_sessions = 1,
                                                !.total_messages = Len(db.messages)])
    /\ nreq = 0
    /\ writes = 0
    /\ dirty = {}
    /\ streak = [n |-> 1, force |-> FALSE, base |-> <<Len(db.sessions), Len(db.messages)>>,
                 all |-> TRUE]
    /\ ParserIdle
    /\ ScannerIdle
    /\ req = [r \in ReqIds |-> NoReq]

\* the requests are served one after the other
NextLazy ==
    \/ \E r \in ReqIds, k \in LoadKeys : LoadStartAlone(r, k[1], k[2])
    \/ \E r \in ReqIds : LoadCheck(r)
    \/ \E r \in ReqIds : LoadCommit(r)
    \/ \E r \in ReqIds : LoadReturn(r)
SpecLazy == InitLazy /\ [][NextLazy]_vars

\* the requests are served concurrently, each in its own ORM session
NextRace ==
    \/ \E r \in ReqIds, k \in LoadKeys : LoadStart(r, k[1], k[2])
    \/ \E r \in ReqIds : LoadCheck(r)
    \/ \E r \in ReqIds : LoadCommit(r)
    \/ \E r \in ReqIds : LoadReturn(r)
SpecRace == InitLazy /\ [][NextRace]_vars

\* ------------------------------------------------ the parsers, line by line
RECURSIVE SeqsUpTo(_, _)
SeqsUpTo(S, n) ==
    IF n = 0 THEN {<<>>}
    ELSE LET shorter == SeqsUpTo(S, n - 1)
         IN shorter \cup {Append(q, x) : q \in {r \in shorter : Len(r) = n - 1}, x \in S}

IndexerIdle ==
    /\ fs = [p \in Paths |-> NoFile]
    /\ side = [subagents |-> {}, todos |-> {}, sublines |-> <<>>, roots |-> Formats]
    /\ db = EmptyTables
    /\ is_indexing = FALSE
    /\ last_indexed = 0
    /\ task = [t \in TaskIds |-> NoTask]
    /\ ret = NoReturn
    /\ nreq = 0
    /\ writes = 0
    /\ dirty = {}
    /\ streak = NoStreak
    /\ req = [r \in ReqIds |-> NoReq]

Stamped(k, ts) == [L(k) EXCEPT !.ts = ts]
Saying(k, text) == [L(k) EXCEPT !.text = text]
\* the texts a user message is given: "Fix the bug", "<system-reminder>...",
\* "<b>bold</b>", a tag alone, the plan preamble, the AGENTS.md prefix, an
\* empty text, a text longer than the display
TextMenu == {Txt("sys", 3), Txt("tag", 3), Txt("tag", 0), Txt("plan", 3),
             Txt("agents", 3), NoText, Txt("none", DisplayMax + 1)}
ClaudeLines ==
    {L(k) : k \in ClaudeKinds}
    \cup {Stamped(k, ts) : k \in {"user", "other"}, ts \in {1, 2}}
    \cup {Stamped("assistant", 2), Stamped("other", 3)}
    \cup {Saying("user", text) : text \in TextMenu}
    \cup {[L(k) EXCEPT !.cwd = "d1"] : k \in {"user", "other"}}
CodexLines ==
    {L(k) : k \in CodexKinds}
    \cup {Stamped(k, ts) : k \in {"session_meta", "msg_user"}, ts \in {1, 2}}
    \cup {Stamped("function_call", 2), Stamped("other", 3)}
    \cup {[L("session_meta") EXCEPT !.id = "none", !.ts = 1]}
    \cup {Saying("msg_user", text) : text \in TextMenu \ {Txt("agents", 3), Txt("tag", 3)}}

\* a parser is given a file of at most MaxLines lines
InitParse ==
    /\ IndexerIdle
    /\ pfmt \in {"claude", "codex"}
    /\ plines \in SeqsUpTo(IF pfmt = "claude" THEN ClaudeLines ELSE CodexLines, MaxLines)
    /\ ppos = 0
    /\ pacc = ParseStart
    /\ ScannerIdle

\* parse_claude_session: read_jsonl delivers the next line
ParseClaudeLine ==
    /\ pfmt = "claude"
    /\ ppos < Len(plines)
    /\ ~pacc.raised
    /\ ppos' = ppos + 1
    /\ pacc' = ClaudeEntry(pacc, plines[ppos + 1])
    /\ UNCHANGED <<pfmt, plines>>
    /\ UNCHANGED <<ixvars, scvars>>

\* parse_codex_session: read_jsonl delivers the next line
ParseCodexLine ==
    /\ pfmt = "codex"
    /\ ppos < Len(plines)
    /\ ~pacc.raised
    /\ ppos' = ppos + 1
    /\ pacc' = CodexEntry(pacc, plines[ppos + 1])
    /\ UNCHANGED <<pfmt, plines>>
    /\ UNCHANGED <<ixvars, scvars>>

NextParse == ParseClaudeLine \/ ParseCodexLine

SpecParse == InitParse /\ [][NextParse]_vars

\* ------------------------------------------------------------- the scanners
\* A directory tree under a root (settings.claude_dir or settings.codex_dir):
\* a set of entries, each a path relative to the root (a sequence of names)
\* that is a directory or a regular file.
Node(path, dir) == [path |-> path, dir |-> dir]
Name(p) == p[Len(p)]
\* Path.exists, Path.is_dir, Path.is_file
exists(t, p) == \E n \in t : n.path = p
is_dir(t, p) == \E n \in t : n.path = p /\ n.dir
is_file(t, p) == \E n \in t : n.path = p /\ ~n.dir
IsUnder(q, p) == Len(q) > Len(p) /\ SubSeq(q, 1, Len(p)) = p
\* Path.iterdir: the entries of the directory; Path.rglob("*"): the entries
\* at any depth
iterdir(t, p) == {n.path : n \in {m \in t : IsUnder(m.path, p) /\ Len(m.path) = Len(p) + 1}}
rglob(t, p) == {n.path : n \in {m \in t : IsUnder(m.path, p)}}

\* Path.suffix and Path.stem of the names that occur
Suffix(name) ==
    CASE name \in {"s1.jsonl", "s2.jsonl", "s3.jsonl", "s4.jsonl", "s5.jsonl", "s6.jsonl",
                   "s7.jsonl", "s8.jsonl", ".s9.jsonl", "a1.jsonl", "t1.jsonl", "d.jsonl",
                   "f.jsonl"} -> ".jsonl"
      [] name \in {"s1.md", "s2.md", "notes.md", "output_a.md", "a.md", "a_b.md", "b.md",
                   "c.md"} -> ".md"
      [] name = "n.txt" -> ".txt"
      [] name = "x.bin" -> ".bin"
      [] OTHER -> ""
PathStem(name) ==
    CASE name \in {"s1.jsonl", "s1.md"} -> "s1"
      [] name \in {"s2.jsonl", "s2.md"} -> "s2"
      [] OTHER -> name
\* f"{session_id}.md"
MdName(session_id) == IF session_id = "s1" THEN "s1.md" ELSE "s2.md"
\* str.startswith(".") and str.isdigit of the names that occur
StartsWithDot(name) == name \in {".hid", ".s9.jsonl"}
\* a faulty variant: every name passes for a number
isdigit_any(name) == TRUE
\* the names that occur and consist of digits
Numeric == {"2024", "2025", "01", "02", "03"}
isdigit(name) == name \in Numeric

\* a faulty variant: the pattern is matched at any depth
glob_jsonl_deep(t, p) == {q \in rglob(t, p) : Suffix(Name(q)) = ".jsonl"}
\* Path.glob("*.jsonl"): the entries of the directory whose name ends in .jsonl
glob_jsonl(t, p) == {q \in iterdir(t, p) : Suffix(Name(q)) = ".jsonl"}

\* what a scanner gives: the paths yielded, or the exception of iterdir on
\* a path that is no directory
ScanOut(raised, yielded) == [raised |-> raised, yielded |-> yielded]

\* scan_claude_sessions(claude_dir)
scan_claude_sessions(t) ==
    LET projects_dir == <<"projects">> IN
    IF ~exists(t, projects_dir) THEN ScanOut(FALSE, {})
    ELSE IF ~is_dir(t, projects_dir) THEN ScanOut(TRUE, {})
    ELSE ScanOut(FALSE,
             UNION {{jsonl_file \in glob_jsonl(t, project_dir) : is_file(t, jsonl_file)} :
                       project_dir \in {d \in iterdir(t, projects_dir) :
                                           is_dir(t, d) /\ ~StartsWithDot(Name(d))}})

\* scan_codex_sessions(codex_dir)
scan_codex_sessions(t) ==
    LET sessions_dir == <<"sessions">>
        numbered(p) == {d \in iterdir(t, p) : is_dir(t, d) /\ isdigit(Name(d))}
    IN IF ~exists(t, sessions_dir) THEN ScanOut(FALSE, {})
       ELSE IF ~is_dir(t, sessions_dir) THEN ScanOut(TRUE, {})
       ELSE ScanOut(FALSE,
                UNION {{jsonl_file \in glob_jsonl(t, day_dir) : is_file(t, jsonl_file)} :
                          day_dir \in UNION {numbered(month_dir) :
                              month_dir \in UNION {numbered(year_dir) :
                                  year_dir \in numbered(sessions_dir)}}})

\* A key of the dictionary of find_associated_files, as the sequence of its
\* pieces between the underscores: "artifact_output_a.md" is
\* <<"artifact", "output", "a.md">>. Pieces: the pieces of a name.
Pieces(name) ==
    CASE name = "output_a.md" -> <<"output", "a.md">>
      [] name = "a_b.md" -> <<"a", "b.md">>
      [] OTHER -> <<name>>
\* rel_path.as_posix().replace('/', '_')
RECURSIVE Underscored(_)
Underscored(rel) ==
    IF rel = <<>> THEN <<>> ELSE Pieces(Head(rel)) \o Underscored(Tail(rel))
ArtifactSuffixes == {".md", ".txt", ".log", ".json"}
SubdirNames == {"output", "artifacts", "docs"}

\* the assignments files[file_key] = file_path made for the session
\* directory of one project directory, the loose files (stage 1) before
\* those of the subdirectories (stage 2)
ArtifactEntries(t, session_id, project_dir) ==
    LET session_dir == Append(project_dir, session_id)
        Entry(key, path, stage) ==
            [key |-> key, path |-> path, project |-> project_dir, stage |-> stage]
    IN IF ~is_dir(t, session_dir) THEN {}
       ELSE {Entry(<<"artifact">> \o Pieces(Name(file_path)), file_path, 1) :
                file_path \in {f \in iterdir(t, session_dir) :
                    /\ is_file(t, f)
                    /\ ~(Suffix(Name(f)) = ".jsonl" /\ PathStem(Name(f)) = session_id)
                    /\ Suffix(Name(f)) \in ArtifactSuffixes}}
            \cup UNION {
                {Entry(<<"artifact">> \o Underscored(SubSeq(file_path, Len(session_dir) + 1,
                                                            Len(file_path))),
                       file_path, 2) :
                    file_path \in {f \in rglob(t, Append(session_dir, subdir)) :
                        is_file(t, f) /\ Suffix(Name(f)) \in ArtifactSuffixes}} :
                subdir \in {sd \in SubdirNames : is_dir(t, Append(session_dir, sd))}}

\* every assignment of find_associated_files: the TODO file, and the
\* artifacts of the session directory of each project directory
AssociatedEntries(t, session_id) ==
    LET todo_path == <<"todos", MdName(session_id)>>
        projects_dir == <<"projects">>
    IN (IF exists(t, todo_path)
        THEN {[key |-> <<"todo">>, path |-> todo_path, project |-> <<>>, stage |-> 0]}
        ELSE {})
       \cup (IF exists(t, projects_dir)
             THEN UNION {ArtifactEntries(t, session_id, project_dir) :
                            project_dir \in {d \in iterdir(t, projects_dir) : is_dir(t, d)}}
             ELSE {})

\* The dictionaries find_associated_files can return: an assignment to a key
\* replaces the earlier ones, so a key holds the path assigned last. The
\* order of iterdir and rglob is the directory's: any project directory can
\* come last, in it the files of a subdirectory come after the loose ones.
IsDict(entries, d) ==
    /\ \A k \in {e.key : e \in entries} : Cardinality({e \in d : e.key = k}) = 1
    /\ \A e \in d : \A o \in entries :
           (o.key = e.key /\ o.project = e.project) => o.stage <= e.stage
Dicts(entries) == {d \in SUBSET entries : IsDict(entries, d)}

\* ----------------------------------------------- the scanners, on a tree
\* the ancestors of an entry are directories
Closure(leaves) ==
    leaves \cup UNION {{Node(SubSeq(n.path, 1, k), TRUE) : k \in 1..(Len(n.path) - 1)} :
                          n \in leaves}
ClaudeLeaves ==
    {Node(<<"projects">>, TRUE),
     Node(<<"projects", "f.jsonl">>, FALSE),
     Node(<<"projects", "p1", "s1.jsonl">>, FALSE),
     Node(<<"projects", "p1", ".s9.jsonl">>, FALSE),
     Node(<<"projects", "p1", "n.txt">>, FALSE),
     Node(<<"projects", "p1", "d.jsonl">>, TRUE),
     Node(<<"projects", "p2", "s1.jsonl">>, FALSE),
     Node(<<"projects", ".hid", "s2.jsonl">>, FALSE),
     Node(<<"projects", "p1", "s1", "subagents", "a1.jsonl">>, FALSE),
     Node(<<"projects", "p1", "s1", "tool-results", "t1.jsonl">>, FALSE)}
CodexLeaves ==
    {Node(<<"sessions">>, TRUE),
     Node(<<"sessions", "2024">>, FALSE),
     Node(<<"sessions", "2025", "s8.jsonl">>, FALSE),
     Node(<<"sessions", "2025", "01", "03">>, FALSE),
     Node(<<"sessions", "2025", "01", "02", "s3.jsonl">>, FALSE),
     Node(<<"sessions", "2025", "01", "02", "n.txt">>, FALSE),
     Node(<<"sessions", "2025", "01", "02", "d.jsonl">>, TRUE),
     Node(<<"sessions", "2025", "01", "02", "sub", "s4.jsonl">>, FALSE),
     Node(<<"sessions", "abc", "01", "02", "s5.jsonl">>, FALSE),
     Node(<<"sessions", "2025", "jan", "02", "s6.jsonl">>, FALSE),
     Node(<<"sessions", "2025", "01", "xx", "s7.jsonl">>, FALSE)}
ArtifactLeaves ==
    {Node(<<"todos", "s1.md">>, FALSE),
     Node(<<"projects", "p1", "s1", "notes.md">>, FALSE),
     Node(<<"projects", "p1", "s1", "output_a.md">>, FALSE),
     Node(<<"projects", "p1", "s1", "x.bin">>, FALSE),
     Node(<<"projects", "p1", "s1", "output", "a.md">>, FALSE),
     Node(<<"projects", "p1", "s1", "output", "a_b.md">>, FALSE),
     Node(<<"projects", "p1", "s1", "output", "a", "b.md">>, FALSE),
     Node(<<"projects", "p1", "s1", "docs", "notes.md">>, FALSE),
     Node(<<"projects", "p1", "s1", "other", "c.md">>, FALSE),
     Node(<<"projects", "p2", "s1", "notes.md">>, FALSE)}
\* a root whose projects or sessions entry is a regular file
FileRoots == {{Node(<<"projects">>, FALSE)}, {Node(<<"sessions">>, FALSE)}}

InitScan ==
    /\ IndexerIdle
    /\ ParserIdle
    /\ tree \in {Closure(leaves) : leaves \in SUBSET ClaudeLeaves \cup SUBSET CodexLeaves
                                               \cup SUBSET ArtifactLeaves}
                \cup FileRoots
    /\ scan = NoScan

ScanClaude ==
    /\ scan.op = "none"
    /\ LET out == scan_claude_sessions(tree) IN
       scan' = [scan EXCEPT !.op = "claude", !.raised = out.raised, !.yielded = out.yielded]
    /\ UNCHANGED <<tree, ixvars, pvars>>

ScanCodex ==
    /\ scan.op = "none"
    /\ LET out == scan_codex_sessions(tree) IN
       scan' = [scan EXCEPT !.op = "codex", !.raised = out.raised, !.yielded = out.yielded]
    /\ UNCHANGED <<tree, ixvars, pvars>>

\* find_associated_files(session_id, claude_dir)
FindAssociated(session_id) ==
    /\ scan.op = "none"
    /\ IF exists(tree, <<"projects">>) /\ ~is_dir(tree, <<"projects">>)
       THEN scan' = [scan EXCEPT !.op = "associated", !.sid = session_id, !.raised = TRUE]
       ELSE \E d \in Dicts(AssociatedEntries(tree, session_id)) :
                scan' = [scan EXCEPT !.op = "associated", !.sid = session_id, !.files = d]
    /\ UNCHANGED <<tree, ixvars, pvars>>

NextScan ==
    \/ ScanClaude
    \/ ScanCodex
    \/ \E session_id \in {"s1", "s2"} : FindAssociated(session_id)

SpecScan == InitScan /\ [][NextScan]_vars

\* ==================================================================== claims
Counts(tables) == <<Len(tables.sessions), Len(tables.messages)>>
Running == {t \in TaskIds : task[t].pc = "running"}

\* C1. Idempotence of incremental indexing: once a non-forced run has
\* completed, a second non-forced run over the unchanged tree ends with the
\* same number of Session rows and of Message rows.
C1_Idempotent ==
    (streak.n = 2 /\ ~streak.force /\ ~is_indexing) => Counts(db) = streak.base

\* two non-forced runs in a row are over, rows are stored, and the second run
\* parsed a file again that the first one could not commit
C1_Witness ==
    /\ streak.n = 2 /\ ~streak.force /\ ~is_indexing
    /\ Len(db.sessions) >= 2 /\ Len(db.messages) >= 3
    /\ ret.status = "ok" /\ ret.counts.errors >= 1

\* C2. In every reachable state of the store, after any sequence of forced
\* and non-forced runs, no two Session rows have the same file_path.
C2_UniqueFilePath ==
    \A i, j \in 1..Len(db.sessions) :
        i # j => db.sessions[i].file_path # db.sessions[j].file_path

\* a forced run is over the files that an earlier run has indexed
C2_Witness ==
    /\ streak.n >= 1 /\ streak.force /\ streak.all /\ ~is_indexing
    /\ Len(db.sessions) >= 3

\* C3. Forced re-index: the second of two forced runs over the same tree
\* parses every candidate file again, and the store then has the Session and
\* Message row counts it had after the first.
C3_ForcedReindex ==
    (streak.n = 2 /\ streak.force /\ ~is_indexing) =>
        (streak.all /\ Counts(db) = streak.base)

\* two forced runs in a row are over and rows are stored
C3_Witness ==
    /\ streak.n = 2 /\ streak.force /\ ~is_indexing
    /\ Len(db.sessions) >= 2 /\ Len(db.messages) >= 3

\* C4. Single active run: at most one invocation of index_all_sessions is
\* past the check of the flag and processing files.
C4_SingleRun == Cardinality(Running) <= 1

\* two background tasks were added while idle; one runs, the other was turned away
C4_Witness ==
    /\ \E t \in Running : t # 0 /\ task[t].visited # {}
    /\ ret.status = "already_running"

\* C5. A start request that arrives while a run is in progress is rejected
\* with the already_running signal and changes nothing: no file is scanned or
\* parsed, no row written, last_indexed and the set flag stay as they are,
\* and the run in progress goes on.
Rejects ==
    \/ ret' # ret /\ ret'.status = "already_running"
    \/ \E t \in TaskIds : task[t].pc = "unborn" /\ task'[t].pc = "dropped"
C5_RejectedStart ==
    [][Rejects =>
         /\ is_indexing /\ is_indexing'
         /\ db' = db
         /\ last_indexed' = last_indexed
         /\ \A t \in TaskIds :
                /\ task[t].pc = "running" => task'[t] = task[t]
                /\ task'[t].parsed = task[t].parsed
                /\ task'[t].visited = task[t].visited
                /\ task'[t].pending = task[t].pending]_vars

\* an invocation was turned away while another one had committed rows and
\* still runs
C5_Witness ==
    /\ ret.status = "already_running"
    /\ is_indexing
    /\ \E t \in Running : task[t].loc.session_count >= 1

\* what the parser of its format makes of the file at p
ParseFile(p) ==
    IF p \in ClaudePaths THEN parse_claude_session(p, fs[p].lines)
    ELSE parse_codex_session(p, fs[p].lines)
ChildRows(tables) ==
    Range(tables.messages) \cup Range(tables.subagents) \cup Range(tables.associated_files)
NoOrphans == \A r \in ChildRows(db) : r.session_id \in SessionIds(db)
\* the candidates of a run in the order the two scanners yield them
ScanOrder == SelectSeq(ClaudeOrder \o CodexOrder, LAMBDA p : fs[p].present)
Valid(p) == ~ParseFile(p).raised /\ Len(ParseFile(p).messages) >= 1

\* C6. Partial-failure isolation: a run over three candidate files of which
\* the second cannot be parsed and the other two are valid with at least one
\* message ends with Session rows for the first and the third, a returned
\* error count of 1, and no row for the second.
C6_PartialFailure ==
    (/\ ret.task = 0 /\ ret.status = "ok"
     /\ Len(ScanOrder) = 3
     /\ Valid(ScanOrder[1]) /\ ParseFile(ScanOrder[2]).raised /\ Valid(ScanOrder[3]))
    => /\ HasFilePath(db, ScanOrder[1])
       /\ HasFilePath(db, ScanOrder[3])
       /\ ret.counts.errors = 1
       /\ ~HasFilePath(db, ScanOrder[2])
       /\ NoOrphans

\* C7. Per-file atomicity: a file's Session is committed together with all
\* its Messages, Subagent references and AssociatedFiles, or none of these
\* rows is; when a file raises, the rows of earlier files stay and the later
\* candidates are still processed; no child row is stored without its Session.
NewRows(old, new) == SubSeq(new, Len(old) + 1, Len(new))
WholeFile(p) ==
    /\ Len(db'.sessions) = Len(db.sessions) + 1
    /\ LET s == db'.sessions[Len(db'.sessions)] IN
       /\ db'.sessions = Append(db.sessions, s)
       /\ s.file_path = p
       /\ s.message_count = Len(ParseFile(p).messages)
       /\ db'.messages = db.messages \o NewRows(db.messages, db'.messages)
       /\ Len(NewRows(db.messages, db'.messages)) = s.message_count
       /\ db'.subagents = db.subagents \o NewRows(db.subagents, db'.subagents)
       /\ Len(NewRows(db.subagents, db'.subagents)) =
              Len(find_claude_subagents(s.id, ProjectDir(p), side))
       /\ db'.associated_files =
              db.associated_files \o NewRows(db.associated_files, db'.associated_files)
       /\ Len(NewRows(db.associated_files, db'.associated_files)) =
              (IF p \in ClaudePaths /\ s.id \in side.todos THEN 1 ELSE 0)
       /\ \A r \in Range(NewRows(db.messages, db'.messages))
                \cup Range(NewRows(db.subagents, db'.subagents))
                \cup Range(NewRows(db.associated_files, db'.associated_files)) :
              r.session_id = s.id
FileStep(t) ==
    (task[t].pc = "running" /\ task'[t].visited \ task[t].visited # {}) =>
        LET p == CHOOSE q \in task'[t].visited : q \notin task[t].visited IN
        /\ WholeFile(p) \/ db' = db
        /\ task'[t].loc.error_count > task[t].loc.error_count => db' = db
        /\ task'[t].pc = "running"
RunVisitsAll(t) ==
    (task[t].pc = "running" /\ task'[t].pc = "returned" /\ ret'.status = "ok") =>
        task[t].visited = Candidates(fs)
C8_EmptySkip ==
    \A p \in Candidates(fs) :
        (~ParseFile(p).raised /\ Len(ParseFile(p).messages) = 0) => ~HasFilePath(db, p)

\* C9. Sequence monotonicity: the sequence numbers of the N Messages of a
\* session are 0..N-1 in file-read order, from one counter for all
\* message-producing record types; skipped lines and ignored record types
\* take no number.
IsMessageKind(line) ==
    line.kind \in {"user", "assistant", "msg_user", "msg_assistant", "function_call",
                   "function_call_output"}
TypeOfKind(kind) == IF kind \in {"user", "assistant"} THEN kind ELSE CodexType(kind)
C9_Sequence ==
    ~pacc.raised =>
        LET prod == SelectSeq(SubSeq(plines, 1, ppos), IsMessageKind)
            rows == MessageRows("s", "none", pacc.messages)
        IN /\ Len(rows) = Len(prod)
           /\ pacc.sequence = Len(prod)
           /\ \A i \in 1..Len(rows) :
                  /\ rows[i].sequence = i - 1
                  /\ rows[i].type = TypeOfKind(prod[i].kind)

\* a file is read to its end: a message, a line that gives none, a message
C9_Witness ==
    /\ ppos = Len(plines) /\ Len(plines) = 3
    /\ ~pacc.raised
    /\ IsMessageKind(plines[1]) /\ ~IsMessageKind(plines[2]) /\ IsMessageKind(plines[3])
    /\ Len(pacc.messages) = 2

\* C10. A non-forced run leaves every indexed Session and all its Messages,
\* Subagents and AssociatedFiles as they are, also when the file at that
\* path has new content.
IsPrefix(old, new) == Len(old) <= Len(new) /\ SubSeq(new, 1, Len(old)) = old
Preserved(old, new) ==
    /\ IsPrefix(old.sessions, new.sessions)
    /\ IsPrefix(old.messages, new.messages)
    /\ IsPrefix(old.subagents, new.subagents)
    /\ IsPrefix(old.associated_files, new.associated_files)
    /\ \A s \in Range(NewRows(old.sessions, new.sessions)) : s.id \notin SessionIds(old)
    /\ \A r \in Range(NewRows(old.messages, new.messages))
             \cup Range(NewRows(old.subagents, new.subagents))
             \cup Range(NewRows(old.associated_files, new.associated_files)) :
           r.session_id \notin SessionIds(old)
C10_NonForcedFrame ==
    [][(\E t \in TaskIds : /\ task[t].pc = "running"
                           /\ ~task[t].force
                           /\ task'[t].visited \ task[t].visited # {})
       => Preserved(db, db')]_vars

\* a non-forced run has passed over an indexed file whose content is no
\* longer what was indexed
C10_Witness ==
    \E t \in Running :
        /\ ~task[t].force
        /\ \E p \in task[t].visited \ task[t].parsed :
               \E i \in 1..Len(db.sessions) :
                   /\ db.sessions[i].file_path = p
                   /\ ~ParseFile(p).raised
                   /\ db.sessions[i].message_count # Len(ParseFile(p).messages)

\* ---------------------------------------------------- claims on the parsers
\* the file of the parser specification has been read to its end
ParsedToEnd == ppos = Len(plines) /\ ~pacc.raised
IsUserKind(line) == line.kind \in {"user", "msg_user"}
\* the rule of the display text: a user message qualifies when its text is
\* not empty once the tags are taken out, does not begin with the plan
\* preamble and does not start with a system prefix
Qualifies(text) ==
    /\ ~IsEmpty(strip_xml_tags(text))
    /\ ~StartsWithPlan(strip_xml_tags(text))
    /\ ~is_system_message(text)
QualifyingTexts(lines) ==
    SelectSeq(lines, LAMBDA line : IsUserKind(line) /\ Qualifies(line.text))

\* C15. Display text rule: the display text of a session is the first user
\* message in file order that qualifies, without its tags and cut to 200
\* characters; user messages before it that do not qualify are passed over;
\* when none qualifies it is "No user message".
C15_DisplayText ==
    ParsedToEnd =>
        Display(pacc.first) =
            (IF QualifyingTexts(plines) = <<>> THEN NoUserMessage
             ELSE Truncate(strip_xml_tags(QualifyingTexts(plines)[1].text)))

\* C16. Format A records of a type other than user and assistant are ignored:
\* the file without them gives the same timestamps, working directory,
\* model, display text and messages.
C16_OtherIgnored ==
    (ParsedToEnd /\ pfmt = "claude") =>
        LET without == SelectSeq(plines, LAMBDA line : line.kind # "other")
            ref == ClaudeLoop(ParseStart, without)
        IN /\ pacc.created_at = ref.created_at
           /\ pacc.updated_at = ref.updated_at
           /\ pacc.cwd = ref.cwd
           /\ pacc.model = ref.model
           /\ Display(pacc.first) = Display(ref.first)
           /\ pacc.messages = ref.messages

\* C17. Format B session identity: the Session of a Format B file has the id
\* of the file's session_meta record when there is one with an id, and the
\* filename stem otherwise.
C17_CodexIdentity ==
    \A i \in 1..Len(db.sessions) :
        db.sessions[i].source = "codex" =>
            LET p == db.sessions[i].file_path
                metas == SelectSeq(fs[p].lines,
                                   LAMBDA line : line.kind = "session_meta" /\ line.id # "none")
            IN db.sessions[i].id = (IF metas = <<>> THEN Stem(p) ELSE metas[Len(metas)].id)

\* C18. Timestamps, for both formats and any order of records: created_at is
\* the timestamp of the first record of the file that carries one,
\* updated_at that of the last record that carries one.
C18_Timestamps ==
    ParsedToEnd =>
        LET stamped == SelectSeq(plines, LAMBDA line : Yields(line) /\ line.ts # 0)
        IN stamped # <<>> =>
               /\ pacc.created_at = stamped[1].ts
               /\ pacc.updated_at = stamped[Len(stamped)].ts

\* ------------------------------------------------ claims on the lazy loader
\* request r is answered in this step
Answered(r) == req[r].pc # "done" /\ req'[r].pc = "done"
\* what the parser makes of the subagent transcripts
SubagentParse == ClaudeLoop(ParseStart, side.sublines)
\* the Messages of (sid, agent) that are stored
StoredFor(tables, sid, agent) ==
    SelectSeq(tables.messages, LAMBDA m : m.session_id = sid /\ m.agent_id = agent)

\* C11. Lazy materialization: the first request for a Subagent that has a
\* file path and no cached Messages parses the file and persists its
\* Messages under the agent id; every later request for the pair, served
\* after it, is given the same Messages in the order of sequence, parses
\* nothing and adds no row.
FirstLoad(r) ==
    (/\ req'[r].parsed
     /\ ~SubagentParse.raised
     /\ Len(SubagentParse.messages) >= 1)
    => /\ req'[r].status = Ok
       /\ req'[r].messages =
              MessageRows(req'[r].sid, req'[r].agent, SubagentParse.messages)
       /\ StoredFor(db', req'[r].sid, req'[r].agent) = req'[r].messages
CacheHit(r) ==
    req'[r].earlier # {}
    => /\ req'[r].status = Ok
       /\ req'[r].messages \in req'[r].earlier
       /\ \A i \in 1..Len(req'[r].messages) : req'[r].messages[i].sequence = i - 1
       /\ ~req'[r].parsed
       /\ Len(db'.messages) = req'[r].before
C11_LazyMaterialize ==
    [][\A r \in ReqIds : Answered(r) => (FirstLoad(r) /\ CacheHit(r))]_vars

\* C12. Concurrent lazy load: however two first requests for the same pair
\* interleave, the store holds one set of Messages for the pair, each
\* sequence number once.
C12_OneSet ==
    \A i, j \in 1..Len(db.messages) :
        (/\ i # j
         /\ db.messages[i].session_id = db.messages[j].session_id
         /\ db.messages[i].agent_id = db.messages[j].agent_id)
        => db.messages[i].sequence # db.messages[j].sequence

\* C13. Outcomes of a load that loads nothing: no file path, or a file
\* without messages, is answered with an empty list; a failure of the parse
\* or of the commit is answered as a failure; in each case no Message of
\* the pair is stored and the Subagent row is as the indexer wrote it.
NothingLoaded(r) ==
    /\ db' = db
    /\ StoredFor(db', req'[r].sid, req'[r].agent) = <<>>
    /\ db'.subagents[req'[r].sub] \in
           Range(SubagentRows(req'[r].sid, <<SubagentFile, SubagentFile2>>))
Outcomes(r) ==
    /\ (req'[r].parsed /\ SubagentParse.raised) => req'[r].status = ServerError
    /\ (req'[r].parsed /\ ~SubagentParse.raised /\ Len(SubagentParse.messages) = 0)
           => (req'[r].status = Ok /\ req'[r].messages = <<>>)
    /\ (req[r].pc = "committing" /\ CommitLoad(db, req[r].pending, req[r].sub,
                                               req[r].update).raised)
           => req'[r].status = ServerError
    /\ (req'[r].status = ServerError
        \/ (req'[r].status = Ok /\ req'[r].messages = <<>>)) => NothingLoaded(r)
NoPathIsEmpty ==
    \A i \in 1..Len(db.subagents) :
        LazyParse([db.subagents[i] EXCEPT !.file_path = "none"], side)
            = Loaded("empty", <<>>, NoUpdate)
C13_LoadOutcomes ==
    [][NoPathIsEmpty /\ \A r \in ReqIds : Answered(r) => Outcomes(r)]_vars

\* a commit has failed and was answered as a failure, next to a request for
\* a Subagent that is not there
C13_Witness ==
    /\ \E r \in ReqIds : /\ req[r].pc = "done" /\ req[r].status = ServerError
                         /\ req[r].parsed /\ ~SubagentParse.raised
    /\ \E r \in ReqIds : req[r].pc = "done" /\ req[r].status = NotFound

\* C14. Indexing writes references only: as long as no request reaches the
\* loader, no stored Message has an agent id, and every subagent transcript
\* of an indexed session has exactly one Subagent row, with its file path.
C14_ReferenceOnly ==
    /\ \A i \in 1..Len(db.messages) : db.messages[i].agent_id = "none"
    /\ \A i \in 1..Len(db.sessions) :
           \A f \in side.subagents :
               (/\ db.sessions[i].source = "claude"
                /\ SubagentSession(f) = db.sessions[i].id
                /\ SubagentProject(f) = ProjectDir(db.sessions[i].file_path))
               => Cardinality({j \in 1..Len(db.subagents) :
                                  /\ db.subagents[j].file_path = f
                                  /\ db.subagents[j].session_id = db.sessions[i].id
                                  /\ db.subagents[j].agent_id = Stem(f)}) = 1
    /\ \A j \in 1..Len(db.subagents) : db.subagents[j].file_path \in side.subagents

\* a forced run is over the session whose subagents an earlier run indexed
C14_Witness ==
    /\ Len(db.subagents) = 2
    /\ ret.task # 0 /\ ret.status = "ok" /\ ret.counts.errors >= 1
    /\ streak.force

\* ------------------------------------------------ claims on the coordinator
\* invocation t returns in this step
Returns(t) == task[t].pc = "running" /\ task'[t].pc = "returned"

\* C19. idle -> running -> idle: a run that was accepted brings the flag back
\* to idle, whether it completes or is aborted; the flag is set exactly
\* while a run is in progress; last_indexed is set by a run that completes
\* both formats and left alone by a run that is aborted.
C19_RunStateMachine ==
    /\ is_indexing ~> ~is_indexing
    /\ [](is_indexing <=> Running # {})
    /\ [][\A t \in TaskIds :
              Returns(t) =>
                  /\ ~is_indexing'
                  /\ ret'.status = "ok" => (/\ last_indexed' # last_indexed
                                            /\ task[t].fmt = "codex")
                  /\ ret'.status # "ok" => last_indexed' = last_indexed]_vars

\* a refresh run was aborted after the startup run had completed
C19_Witness ==
    /\ ret.status = "failed" /\ ret.task # 0
    /\ ~is_indexing
    /\ last_indexed = 1

\* the processing of the file raises: the parser does, or the INSERT of its
\* Session meets a stored id
FileRaises(p) ==
    \/ ParseFile(p).raised
    \/ (~ParseFile(p).none /\ Stem(p) \in SessionIds(db))

AbsentRootYieldsNone ==
    /\ ~RootExists(side, "claude") => NextCand(ClaudeOrder, 0, fs) = 0
    /\ ~RootExists(side, "codex") => NextCand(CodexOrder, 0, fs) = 0
AbsentRootStep(t) ==
    (task[t].pc = "running" /\ ~RootExists(side, task[t].fmt)) =>
        /\ ~(Returns(t) /\ ret'.status # "ok")
        /\ (task[t].fmt = "claude" /\ task'[t] # task[t]) =>
               /\ task'[t].pc = "running" /\ task'[t].fmt = "codex"
               /\ task'[t].counts.claude_sessions = 0
               /\ task'[t].counts.errors = 0
               /\ task'[t].counts.total_messages = 0
        /\ (task[t].fmt = "codex" /\ Returns(t)) =>
               /\ ret'.counts.codex_sessions = 0
               /\ ret'.counts.errors = task[t].counts.errors
               /\ ret'.counts.total_messages = task[t].counts.total_messages
               /\ task[t].visited = Candidates(fs)
OtherFormatVisited(t) ==
    (Returns(t) /\ ret'.status = "ok") =>
        /\ ~RootExists(side, "claude") =>
               /\ ret'.counts.claude_sessions = 0
               /\ task[t].visited = {p \in CodexPaths : fs[p].present}
        /\ ~RootExists(side, "codex") =>
               /\ ret'.counts.codex_sessions = 0
               /\ task[t].visited = {p \in ClaudePaths : fs[p].present}
C21_MissingRoot ==
    /\ []AbsentRootYieldsNone
    /\ [][\A t \in TaskIds : AbsentRootStep(t) /\ OtherFormatVisited(t)]_vars

\* the startup run is over a tree without <claude>/projects and has
\* committed the Format B transcript
C21_Witness ==
    /\ ~RootExists(side, "claude")
    /\ ret.task = 0 /\ ret.status = "ok"
    /\ ret.counts.codex_sessions = 1 /\ ret.counts.claude_sessions = 0
    /\ ret.counts.errors = 0
    /\ HasFilePath(db, "xA")

\* the regular files of the tree whose name ends in .jsonl
JsonlFiles == {n.path : n \in {m \in tree : ~m.dir /\ Suffix(Name(m.path)) = ".jsonl"}}

\* C22. Format A scan set: scan_claude_sessions yields exactly the regular
\* .jsonl files that are immediate children of a directory of projects/
\* whose name does not start with "."; nothing inside subagents/ or
\* tool-results/, or deeper, is yielded.
C22_ClaudeScanSet ==
    scan.op = "claude" =>
        /\ scan.yielded = {p \in JsonlFiles :
                              /\ Len(p) = 3
                              /\ p[1] = "projects"
                              /\ is_dir(tree, <<"projects", p[2]>>)
                              /\ ~StartsWithDot(p[2])}
        /\ \A p \in scan.yielded :
               \A i \in 1..Len(p) : p[i] \notin {"subagents", "tool-results"}

\* two transcripts are yielded from a tree that also has a hidden project
\* directory, a subagent transcript and a directory named like a transcript
C22_Witness ==
    /\ scan.op = "claude"
    /\ Cardinality(scan.yielded) >= 2
    /\ exists(tree, <<"projects", ".hid", "s2.jsonl">>)
    /\ exists(tree, <<"projects", "p1", "s1", "subagents", "a1.jsonl">>)
    /\ exists(tree, <<"projects", "p1", "d.jsonl">>)

\* C23. Format B scan set: scan_codex_sessions yields exactly the regular
\* .jsonl files at sessions/<year>/<month>/<day>/ where the three segments
\* are directories with numeric names; whatever is under another entry is
\* skipped.
C23_CodexScanSet ==
    scan.op = "codex" =>
        scan.yielded = {p \in JsonlFiles :
                           /\ Len(p) = 5
                           /\ p[1] = "sessions"
                           /\ \A k \in 2..4 : /\ is_dir(tree, SubSeq(p, 1, k))
                                              /\ p[k] \in Numeric}

\* a transcript is yielded from a tree that has transcripts under
\* non-numeric directories, at a wrong depth and a numeric name that is a file
C23_Witness ==
    /\ scan.op = "codex"
    /\ scan.yielded = {<<"sessions", "2025", "01", "02", "s3.jsonl">>}
    /\ exists(tree, <<"sessions", "abc", "01", "02", "s5.jsonl">>)
    /\ exists(tree, <<"sessions", "2025", "jan", "02", "s6.jsonl">>)
    /\ exists(tree, <<"sessions", "2025", "01", "xx", "s7.jsonl">>)
    /\ exists(tree, <<"sessions", "2025", "01", "02", "sub", "s4.jsonl">>)
    /\ exists(tree, <<"sessions", "2025", "01", "03">>)

\* the artifact files of a session: the loose files of a session directory
\* and the files under its output/, artifacts/ and docs/, of a document type
Artifacts(session_id) ==
    {p \in {n.path : n \in {m \in tree : ~m.dir}} :
        /\ Len(p) >= 4
        /\ p[1] = "projects" /\ p[3] = session_id
        /\ Len(p) = 4 \/ p[4] \in SubdirNames
        /\ Suffix(Name(p)) \in ArtifactSuffixes}

\* C24. Artifact keys do not collide: two distinct artifact files of a
\* session are given two distinct keys, so every artifact that exists is in
\* the mapping that find_associated_files returns.
C24_ArtifactKeys ==
    (scan.op = "associated" /\ ~scan.raised) =>
        /\ \A a, b \in AssociatedEntries(tree, scan.sid) : a.path # b.path => a.key # b.key
        /\ \A p \in Artifacts(scan.sid) : \E e \in scan.files : e.path = p

\* ------------------------------------------------------ claims on the store
\* C25. One Session per transcript file: when the startup run, which starts
\* from an empty store, has completed, every candidate file that parses
\* without error to at least one message has exactly one Session, whose
\* file_path is the path of the file.
C25_OnePerFile ==
    (ret.task = 0 /\ ret.status = "ok") =>
        \A p \in Candidates(fs) :
            Valid(p) =>
                Cardinality({i \in 1..Len(db.sessions) : db.sessions[i].file_path = p}) = 1

\* ------------------------------------------------------ claims on the counts
RECURSIVE SumMessages(_)
SumMessages(files) ==
    IF files = {} THEN 0
    ELSE LET p == CHOOSE q \in files : TRUE
         IN Len(ParseFile(p).messages) + SumMessages(files \ {p})
\* the counts that the files of a run amount to
Accounted(committed, errored) ==
    [claude_sessions |-> Cardinality(committed \cap ClaudePaths),
     codex_sessions |-> Cardinality(committed \cap CodexPaths),
     total_messages |-> SumMessages(committed),
     errors |-> Cardinality(errored)]

\* C26. Run accounting: the counts a run returns are, per format, the number
\* of files committed in this run, the sum of the message counts of those
\* files, and the number of files whose processing raised; a file skipped
\* as indexed already or as empty adds to none of them.
C26_Accounting ==
    [][\A t \in TaskIds :
          Returns(t) => ret'.counts = Accounted(task[t].committed, task[t].errored)]_vars

\* C27. Forced run over a stored id: a candidate file that parses to a
\* session whose id is in the store is parsed again, its commit fails on the
\* primary key, the file is rolled back and counted as one error, and the
\* stored Session and its children stay as they were.
ForcedOverStored(t) ==
    \A p \in task'[t].visited \ task[t].visited :
        (/\ task[t].pc = "running" /\ task[t].force
         /\ ~ParseFile(p).raised /\ ~ParseFile(p).none
         /\ Stem(p) \in SessionIds(db))
        => /\ p \in task'[t].parsed
           /\ PrimaryKeyFails(db, [EmptyTables EXCEPT
                                      !.sessions = <<SessionRow(ParseFile(p).session,
                                                                Stem(p))>>])
           /\ task'[t].pc = "running"
           /\ task'[t].pending = EmptyTables
           /\ task'[t].loc = [task[t].loc EXCEPT !.error_count = @ + 1]
           /\ db' = db
C28_MainListing ==
    \A i \in 1..Len(db.sessions) :
        LET s == db.sessions[i]
            listed == get_session_messages(db, s.id).messages
        IN /\ listed = MessageRows(s.id, "none", ParseFile(s.file_path).messages)
           /\ \A j, k \in 1..Len(listed) : j # k => listed[j].sequence # listed[k].sequence

\* C29. Count consistency in every store that indexing runs commit: the
\* message_count of a Session is the number of its Messages without an
\* agent id, its subagent_count the number of its Subagent rows.
C29_CountsConsistent ==
    \A i \in 1..Len(db.sessions) :
        LET s == db.sessions[i] IN
        /\ s.message_count =
               Cardinality({j \in 1..Len(db.messages) :
                               /\ db.messages[j].session_id = s.id
                               /\ db.messages[j].agent_id = "none"})
        /\ s.subagent_count =
               Cardinality({j \in 1..Len(db.subagents) : db.subagents[j].session_id = s.id})

\* runs have committed a Session with two subagents and Sessions without,
\* of both formats, and a forced run is over
C29_Witness ==
    /\ \E i \in 1..Len(db.sessions) :
           db.sessions[i].subagent_count = 2 /\ db.sessions[i].message_count = 2
    /\ \E i \in 1..Len(db.sessions) :
           db.sessions[i].source = "codex" /\ db.sessions[i].message_count >= 1
    /\ Len(db.sessions) = 3
    /\ streak.n >= 1 /\ streak.force

\* ------------------------------------------ claims on the refresh endpoint
\* C30. The answer of the refresh endpoint matches what happens: the
\* background task of a request answered "started" is accepted as a run and
\* goes through the candidates; a request whose task is turned away as
\* already running was answered "already_running".
StartedRuns(t) ==
    (task[t].pc = "queued" /\ task[t].answer = "started" /\ task'[t].pc # "queued") =>
        /\ task'[t].pc = "running"
        /\ ret' = ret
C30_RefreshAnswer == [][\A t \in TaskIds : StartedRuns(t)]_vars

====
